---- MODULE Spec2Model ----
(***************************************************************************)
(* OAuth2 provider controller (oauth_provider/controllers/controllers.py)  *)
(* as a state machine.  The controller's handlers are translated from the  *)
(* source; the protocol engine they call (oauth2_server.*, the validator   *)
(* and the stored records) is not part of the controller and is modelled   *)
(* from the specification of the engine (spec.md, sections 3 and 4).       *)
(***************************************************************************)
EXTENDS Integers, FiniteSets, Sequences, TLC

\* ------------------------------------------------------------------ bounds
MaxTime == 2
MaxCodes == 2
MaxTokens == 2

\* ------------------------------------------------------------- vocabulary
\* Python's None for a request parameter or a session key that is absent.
None == "None"
\* The scope parameter of a request that carries none.
NoScope == {"None"}

Users == {"u1", "u2"}

ClientIds == {"app1", "app2"}
ClientIdParams == ClientIds \cup {"ghost"}
RedirectUriParams == {"https://app1/cb", "https://app2/cb"}
ResponseTypeParams == {"code", "token"}
ScopeRequests ==
    {{"profile", "partners"}, {"partners", "admin"}, {"basic", "admin"}, {"admin"}}
StateParams == {"st1"}
TokenScopeParams == {NoScope, {"partners"}, {"profile", "partners", "admin"}}

\* --------------------------------------------------------- client registry
\* Client (spec.md section 3): identifier, allowed redirect URIs, grant types,
\* scopes, token lifetime and the auto-approve flag (skip_authorization).
Client(id) ==
    IF id = "app1"
    THEN [identifier |-> "app1",
          redirect_uris |-> {"https://app1/cb"},
          response_types |-> {"code"},
          grant_types |-> {"authorization_code", "refresh_token"},
          scopes |-> {"profile", "partners"},
          token_expires_in |-> 1,
          skip_authorization |-> FALSE]
    ELSE [identifier |-> "app2",
          redirect_uris |-> {"https://app2/cb"},
          response_types |-> {"code"},
          grant_types |-> {"authorization_code"},
          scopes |-> {"basic"},
          token_expires_in |-> 2,
          skip_authorization |-> TRUE]

\* env['oauth.provider.client'].search([('identifier', '=', client_id)]):
\* the recordset (a set of identifiers) of the matching clients.
SearchClient(client_id) == {c \in ClientIds : Client(c).identifier = client_id}

\* How long an authorization code stays exchangeable (spec.md section 3).
CodeLifetime == 1

\* Opaque unique values: the k-th code, access token and refresh token.
CodeValue(k) == "code" \o ToString(k)
AccessValue(k) == "at" \o ToString(k)
RefreshValue(k) == "rt" \o ToString(k)

\* ------------------------------------------------------------------ state
VARIABLES
    now,        \* the clock
    session,    \* per user: the HTTP session's oauth_scopes / oauth_credentials
    codes,      \* oauth.provider.authorization.code records
    tokens,     \* oauth.provider.token records
    nextCode,   \* number of the next authorization code to issue
    nextToken,  \* number of the next token to issue
    request,    \* the request being served (NoReq: none)
    resp,       \* the response to it (NoResp: not yet handled)
    inflight,   \* concurrent token requests, each between its steps
    exchanged,  \* history: the 200 responses of the token endpoint
    revoked,    \* history: the values a revocation responded success for
    decided     \* history: per user, whether the pending authorization of the
                \* session has had its consent decision (approval or denial)

vars == <<now, session, codes, tokens, nextCode, nextToken, request, resp,
          inflight, exchanged, revoked, decided>>

\* A session without oauth_scopes / oauth_credentials.
NoPending ==
    [scopes |-> {}, client_id |-> None, redirect_uri |-> None,
     response_type |-> None, state |-> None]

\* A request: the route, the logged-in user or session holder, and the
\* parameters the routes read.
NoReq ==
    [ep |-> "none", user |-> None, client_id |-> None, redirect_uri |-> None,
     response_type |-> None, scope |-> NoScope, state |-> None,
     grant_type |-> None, code |-> None, refresh_token |-> None,
     secret_ok |-> FALSE, token |-> None, model |-> None,
     auth_type |-> None, auth_string |-> None, submit_button |-> None]

\* The response record: every handler fills the fields it decides.
\*   kind    error_page | consent_page | redirect | json | exception
\*   uri     the redirect's target (Location without its query)
\*   value   the code or access token the response carries
\*   engine  whether the handler called the protocol engine
NoResp ==
    [kind |-> "none", status |-> 0, error |-> "", description |-> FALSE,
     client |-> None, uri |-> None, value |-> None, state |-> None,
     scopes |-> {}, user |-> None, fields |-> {}, expires_in |-> 0,
     grant |-> 0, engine |-> FALSE]

Idle == request = NoReq
Serving(ep) == request.ep = ep /\ resp = NoResp
Handled(ep) == request.ep = ep /\ resp # NoResp

\* ------------------------------------------- engine: authorization request
\* oauth2_server.validate_authorization_request (spec.md section 4.2), after
\* the controller has found the client.  Validation order: redirect_uri
\* (fatal), response_type (protocol error), scopes (filtered to the
\* intersection; protocol error when it is empty).
validate_authorization_request(client_id, response_type, redirect_uri, scope, state) ==
    LET client == Client(client_id)
        granted == scope \cap client.scopes
    IN  IF redirect_uri \notin client.redirect_uris
        THEN [outcome |-> "FatalClientError", error |-> "invalid_request",
              scopes |-> {}, credentials |-> NoPending]
        ELSE IF response_type \notin client.response_types
        THEN [outcome |-> "OAuth2Error", error |-> "unsupported_response_type",
              scopes |-> {}, credentials |-> NoPending]
        ELSE IF granted = {}
        THEN [outcome |-> "OAuth2Error", error |-> "invalid_scope",
              scopes |-> {}, credentials |-> NoPending]
        ELSE [outcome |-> "ok", error |-> "",
              scopes |-> granted,
              credentials |-> [scopes |-> granted, client_id |-> client_id,
                               redirect_uri |-> redirect_uri,
                               response_type |-> response_type,
                               state |-> state]]

\* oauth2_server.create_authorization_response (spec.md sections 3 and 4.6):
\* the authorization code created on consent, bound to the client, the
\* logged-in user, the granted scopes and the redirect URI.
create_authorization_response(user, scopes, credentials) ==
    [code |-> CodeValue(nextCode), client_id |-> credentials.client_id,
     user_id |-> user, scopes |-> scopes,
     redirect_uri |-> credentials.redirect_uri,
     expires_at |-> now + CodeLifetime, consumed |-> FALSE]

\* ------------------------------------------------------ engine: the stores
\* Point lookups of the token/code store (spec.md section 4.4).
SearchCode(client_id, code) ==
    {c \in codes : c.client_id = client_id /\ c.code = code}
SearchTokenByRefresh(client_id, refresh_token) ==
    {t \in tokens : t.client_id = client_id /\ t.refresh_token = refresh_token}
SearchToken(value) == {t \in tokens : t.token = value}
SearchRefreshToken(value) == {t \in tokens : t.refresh_token = value}

\* The fields of a resource type each scope exposes (spec.md section 3).
ScopeFields(scope, model) ==
    IF scope = "profile" /\ model = "res.users" THEN {"id", "name", "login"}
    ELSE IF scope = "basic" /\ model = "res.users" THEN {"id"}
    ELSE IF scope = "partners" /\ model = "res.partner" THEN {"id", "name"}
    ELSE {}

\* token.get_data_for_model (spec.md section 4.5): only the fields the
\* token's granted scopes authorize; empty when no scope authorizes any.
get_data_for_model(token, model) ==
    UNION {ScopeFields(s, model) : s \in token.scopes}

\* env['ir.model'].search([('model', '=', model)])
SearchModel(model) == {m \in {"res.users", "res.partner"} : m = model}

\* ------------------------------------------------------ engine: the grants
SupportedGrantTypes == {"authorization_code", "refresh_token"}

TokenError(status, error) ==
    [status |-> status, error |-> error, issued |-> {}, spent |-> {},
     dropped |-> {}]

\* A code yields a token only if it is present for the client, not consumed
\* and not expired (spec.md sections 3 and 4.3).
ValidCodes(client_id, code) ==
    {c \in SearchCode(client_id, code) : ~c.consumed /\ now < c.expires_at}

\* The token a grant issues for `user` with `scopes`: fresh values, lifetime
\* the client's token_expires_in.
NewToken(client_id, user, scopes) ==
    [token |-> AccessValue(nextToken), refresh_token |-> RefreshValue(nextToken),
     client_id |-> client_id, user_id |-> user, scopes |-> scopes,
     expires_at |-> now + Client(client_id).token_expires_in]

\* oauth2_server.create_token_response (spec.md section 4.3), for the server
\* of client `client_id`: the status and error, the token issued, the code
\* consumed with it and the token a refresh invalidates.
create_token_response(client_id, req) ==
    IF req.grant_type \notin SupportedGrantTypes
    THEN TokenError(400, "unsupported_grant_type")
    ELSE IF req.grant_type = "authorization_code" /\ req.code = None
    THEN TokenError(400, "invalid_request")
    ELSE IF req.grant_type = "refresh_token" /\ req.refresh_token = None
    THEN TokenError(400, "invalid_request")
    ELSE IF ~req.secret_ok
    THEN TokenError(401, "invalid_client")
    ELSE IF req.grant_type \notin Client(client_id).grant_types
    THEN TokenError(400, "unauthorized_client")
    ELSE IF req.grant_type = "authorization_code"
    THEN LET found == ValidCodes(client_id, req.code)
         IN  IF found = {}
             THEN TokenError(400, "invalid_grant")
             ELSE LET c == CHOOSE c \in found : TRUE
                  IN  [status |-> 200, error |-> "",
                       issued |-> {NewToken(client_id, c.user_id, c.scopes)},
                       spent |-> {c}, dropped |-> {}]
    ELSE LET found == SearchTokenByRefresh(client_id, req.refresh_token)
         IN  IF found = {}
             THEN TokenError(400, "invalid_grant")
             ELSE LET t == CHOOSE t \in found : TRUE
                  IN  IF req.scope # NoScope /\ ~(req.scope \subseteq t.scopes)
                      THEN TokenError(400, "invalid_scope")
                      ELSE [status |-> 200, error |-> "",
                            issued |-> {NewToken(client_id, t.user_id,
                                           IF req.scope = NoScope THEN t.scopes
                                           ELSE req.scope)},
                            spent |-> {}, dropped |-> {t}]

\* Faulty variant: the token issued without the code marked consumed.
CodesAfterUnconsumed(r) == codes

\* The stores after a token response `r`: the code consumed, the refreshed
\* token invalidated and the new token stored, in one step.
CodesAfter(r) ==
    (codes \ r.spent) \cup {[c EXCEPT !.consumed = TRUE] : c \in r.spent}
TokensAfter(r) == (tokens \ r.dropped) \cup r.issued

\* oauth2_server.verify_request through checkAccessToken (spec.md section
\* 4.5): valid iff found, not expired and not revoked.
verify_request(value) ==
    \E t \in SearchToken(value) : now < t.expires_at

\* Faulty variant: a revocation that leaves the token in the store.
revoke_nothing(value) == tokens

\* oauth2_server.create_revocation_response (spec.md section 4.5): the token
\* found by access or refresh value is deleted.
revoke(value) == tokens \ (SearchToken(value) \cup SearchRefreshToken(value))

\* ------------------------------------------------------------ controller
\* The "Unknown Client Identifier!" page of authorize() and authorize_post().
UnknownClientPage ==
    [NoResp EXCEPT !.kind = "error_page", !.status = 200,
                   !.error = "Unknown Client Identifier!"]

\* Faulty variant: a fatal error answered like a protocol error that may redirect.
ErrorPageRedirecting(client_id, e) ==
    [NoResp EXCEPT !.kind = "redirect", !.status = 302, !.error = e.error,
                   !.client = client_id, !.uri = request.redirect_uri,
                   !.state = request.state, !.engine = TRUE]

\* The authorization_error page authorize() renders for an OAuth2 error `e`
\* of the engine, for FatalClientError with e.description as the message.
ErrorPage(client_id, e) ==
    [NoResp EXCEPT !.kind = "error_page", !.status = 200, !.error = e.error,
                   !.description = (e.outcome = "FatalClientError"),
                   !.client = client_id, !.engine = TRUE]

\* Faulty variant: the requested scopes stored instead of the validated ones.
StorePendingRequested(user, v) ==
    [session EXCEPT ![user] = [v.credentials EXCEPT !.scopes = request.scope]]

\* The session after authorize() stored the scopes and credentials of the
\* validated request `v`.
StorePending(user, v) == [session EXCEPT ![user] = v.credentials]

\* Faulty variant: authorize_post() without its check of the client.
authorize_post_unchecked(user, sess) ==
    LET grant == create_authorization_response(user, sess.scopes, sess)
    IN  /\ nextCode <= MaxCodes
        /\ codes' = codes \cup {grant}
        /\ nextCode' = nextCode + 1
        /\ resp' = [NoResp EXCEPT !.kind = "redirect", !.status = 302,
                       !.client = sess.client_id, !.uri = grant.redirect_uri,
                       !.value = grant.code, !.state = sess.state,
                       !.scopes = grant.scopes, !.user = user,
                       !.engine = TRUE]

\* authorize_post(): the consent approval, on the session value `sess` of the
\* logged-in user.
authorize_post(user, sess) ==
    LET client == SearchClient(sess.client_id)
    IN  IF client = {}
        THEN /\ resp' = UnknownClientPage
             /\ UNCHANGED <<codes, nextCode>>
        ELSE LET grant == create_authorization_response(user, sess.scopes, sess)
             IN  /\ nextCode <= MaxCodes
                 /\ codes' = codes \cup {grant}
                 /\ nextCode' = nextCode + 1
                 /\ resp' = [NoResp EXCEPT !.kind = "redirect",
                                !.status = 302,
                                !.client = sess.client_id,
                                !.uri = grant.redirect_uri,
                                !.value = grant.code,
                                !.state = sess.state,
                                !.scopes = grant.scopes,
                                !.user = user,
                                !.engine = TRUE]

\* Faulty variant: no client skips the authorization page.
SkipsAuthorizationNever(client_id) == FALSE

\* authorize(): client.skip_authorization, the flag of the client found.
SkipsAuthorization(client_id) == Client(client_id).skip_authorization

\* Faulty variant: every scope of the client listed on the consent page.
ConsentScopesAll(client_id, scopes) == Client(client_id).scopes

\* authorize(): the scopes listed on the consent page, client.scope_ids
\* filtered to the codes in `scopes`.
ConsentScopes(client_id, scopes) ==
    {s \in Client(client_id).scopes : s \in scopes}

\* Faulty variant: the request's values stored before they are validated.
AuthorizeGetStoringFirst ==
    /\ Serving("authorize_get")
    /\ LET client == SearchClient(request.client_id)
           v == validate_authorization_request(
                    request.client_id, request.response_type,
                    request.redirect_uri, request.scope, request.state)
       IN  IF client = {}
           THEN /\ resp' = UnknownClientPage
                /\ UNCHANGED <<session, codes, nextCode, decided>>
           ELSE IF v.outcome # "ok"
           THEN /\ resp' = ErrorPage(request.client_id, v)
                /\ session' = [session EXCEPT ![request.user] =
                                  [scopes |-> request.scope,
                                   client_id |-> request.client_id,
                                   redirect_uri |-> request.redirect_uri,
                                   response_type |-> request.response_type,
                                   state |-> request.state]]
                /\ UNCHANGED <<codes, nextCode, decided>>
           ELSE /\ session' = StorePending(request.user, v)
                /\ decided' = [decided EXCEPT ![request.user] =
                                  SkipsAuthorization(request.client_id)]
                /\ IF SkipsAuthorization(request.client_id)
                   THEN authorize_post(request.user, v.credentials)
                   ELSE /\ resp' = [NoResp EXCEPT
                                       !.kind = "consent_page",
                                       !.status = 200,
                                       !.client = request.client_id,
                                       !.scopes = ConsentScopes(
                                           request.client_id, v.scopes),
                                       !.engine = TRUE]
                        /\ UNCHANGED <<codes, nextCode>>
    /\ UNCHANGED <<now, tokens, nextToken, request, inflight, exchanged, revoked>>

\* GET /oauth2/authorize
AuthorizeGet ==
    /\ Serving("authorize_get")
    /\ LET client == SearchClient(request.client_id)
           v == validate_authorization_request(
                    request.client_id, request.response_type,
                    request.redirect_uri, request.scope, request.state)
       IN  IF client = {}
           THEN /\ resp' = UnknownClientPage
                /\ UNCHANGED <<session, codes, nextCode, decided>>
           ELSE IF v.outcome # "ok"
           THEN /\ resp' = ErrorPage(request.client_id, v)
                /\ UNCHANGED <<session, codes, nextCode, decided>>
           ELSE /\ session' = StorePending(request.user, v)
                /\ decided' = [decided EXCEPT ![request.user] =
                                  SkipsAuthorization(request.client_id)]
                /\ IF SkipsAuthorization(request.client_id)
                   THEN authorize_post(request.user, v.credentials)
                   ELSE /\ resp' = [NoResp EXCEPT
                                       !.kind = "consent_page",
                                       !.status = 200,
                                       !.client = request.client_id,
                                       !.scopes = ConsentScopes(
                                           request.client_id, v.scopes),
                                       !.engine = TRUE]
                        /\ UNCHANGED <<codes, nextCode>>
    /\ UNCHANGED <<now, tokens, nextToken, request, inflight, exchanged, revoked>>

\* POST /oauth2/authorize
AuthorizePost ==
    /\ Serving("authorize_post")
    /\ authorize_post(request.user, session[request.user])
    /\ decided' = [decided EXCEPT ![request.user] =
                      @ \/ resp'.kind = "redirect"]
    /\ UNCHANGED <<now, session, tokens, nextToken, request, inflight,
                   exchanged, revoked>>

\* Faulty variant: the denial answered without the pending redirect_uri.
DenyResponseWithoutUri(sess) ==
    [NoResp EXCEPT !.kind = "json", !.status = 200, !.fields = {"grant"},
                   !.grant = 400]

\* deny_post(): json.dumps of {grant: 400, redirect_uri: <the session's>}.
DenyResponse(sess) ==
    [NoResp EXCEPT !.kind = "json", !.status = 200,
                   !.fields = {"grant", "redirect_uri"}, !.grant = 400,
                   !.uri = sess.redirect_uri]

\* POST /oauth2/deny
DenyPost ==
    /\ Serving("deny")
    /\ resp' =
          IF request.submit_button # "oauth_deny"
          THEN [NoResp EXCEPT !.kind = "json", !.status = 200]
          ELSE IF session[request.user] = NoPending
          THEN [NoResp EXCEPT !.kind = "exception", !.status = 500,
                              !.error = "AttributeError"]
          ELSE DenyResponse(session[request.user])
    /\ decided' = [decided EXCEPT ![request.user] =
                      @ \/ resp'.fields = {"grant", "redirect_uri"}]
    /\ UNCHANGED <<now, session, codes, tokens, nextCode, nextToken, request,
                   inflight, exchanged, revoked>>

\* _json_response(data={'error': error}, status=status)
JsonError(status, error) ==
    [NoResp EXCEPT !.kind = "json", !.status = status, !.error = error]

\* token(): the client identifier, from the request or else from the session.
TokenClientId(req) ==
    IF req.client_id # None THEN req.client_id
    ELSE IF req.user \in Users THEN session[req.user].client_id
    ELSE None

\* token(): the credentials handed to create_token_response: the request's
\* scope, and the user of the code found and then of the token found.
TokenCredentials(req, existing_code, existing_token) ==
    [scope |-> req.scope,
     user_id |->
        IF existing_token # {}
        THEN (CHOOSE t \in existing_token : TRUE).user_id
        ELSE IF existing_code # {}
        THEN (CHOOSE c \in existing_code : TRUE).user_id
        ELSE None]

\* token(): the response built from the engine's result `r`; the credentials
\* are added to the token of a 200 body, over the engine's own values.
TokenResponse(client_id, r, credentials) ==
    IF r.status # 200
    THEN [JsonError(r.status, r.error) EXCEPT !.client = client_id,
                                              !.engine = TRUE]
    ELSE LET t == CHOOSE t \in r.issued : TRUE
         IN  [NoResp EXCEPT !.kind = "json", !.status = 200,
                            !.client = client_id,
                            !.value = t.token,
                            !.fields = {"access_token", "token_type",
                                        "expires_in", "refresh_token", "scope"}
                                       \cup (IF credentials.user_id = None
                                             THEN {} ELSE {"user_id"}),
                            !.scopes = credentials.scope,
                            !.user = credentials.user_id,
                            !.expires_in = t.expires_at - now,
                            !.engine = TRUE]

\* The history of successful authorization_code exchanges after result `r`.
ExchangedAfter(req, r) ==
    IF r.status = 200 /\ req.grant_type = "authorization_code"
    THEN exchanged \cup {<<req.code, (CHOOSE t \in r.issued : TRUE).token>>}
    ELSE exchanged

\* POST /oauth2/token
Token ==
    /\ Serving("token")
    /\ LET client_id == TokenClientId(request)
           client == SearchClient(client_id)
           existing_code == SearchCode(client_id, request.code)
           existing_token ==
               SearchTokenByRefresh(client_id, request.refresh_token)
           credentials ==
               TokenCredentials(request, existing_code, existing_token)
           r == create_token_response(client_id, request)
       IN  IF client = {}
           THEN /\ resp' = JsonError(401, "invalid_client_id")
                /\ UNCHANGED <<codes, tokens, nextToken, exchanged>>
           ELSE /\ r.issued # {} => nextToken <= MaxTokens
                /\ codes' = CodesAfter(r)
                /\ tokens' = TokensAfter(r)
                /\ nextToken' = nextToken + Cardinality(r.issued)
                /\ exchanged' = ExchangedAfter(request, r)
                /\ resp' = TokenResponse(client_id, r, credentials)
    /\ UNCHANGED <<now, session, nextCode, request, inflight, revoked,
                   decided>>

\* token() under concurrent requests.  Each of the `Slots` workers runs the
\* handler in two steps: the lookups of the client, the code and the token
\* (TokenLookup), then the call of the engine and the response (TokenRespond).
Slots == {"w1", "w2"}

NoFlight ==
    [pc |-> "idle", req |-> NoReq, client_id |-> None,
     existing_code |-> {}, existing_token |-> {}, resp |-> NoResp]

TokenLookup(s, req) ==
    /\ inflight[s].pc = "idle"
    /\ LET client_id == TokenClientId(req)
       IN  inflight' = [inflight EXCEPT ![s] =
              IF SearchClient(client_id) = {}
              THEN [NoFlight EXCEPT !.pc = "done", !.req = req,
                                    !.resp = JsonError(401, "invalid_client_id")]
              ELSE [NoFlight EXCEPT !.pc = "respond", !.req = req,
                                    !.client_id = client_id,
                                    !.existing_code =
                                        SearchCode(client_id, req.code),
                                    !.existing_token =
                                        SearchTokenByRefresh(
                                            client_id, req.refresh_token)]]
    /\ UNCHANGED <<now, session, codes, tokens, nextCode, nextToken, request,
                   resp, exchanged, revoked,
                   decided>>

TokenRespond(s) ==
    /\ inflight[s].pc = "respond"
    /\ LET f == inflight[s]
           r == create_token_response(f.client_id, f.req)
       IN  /\ r.issued # {} => nextToken <= MaxTokens
           /\ codes' = CodesAfter(r)
           /\ tokens' = TokensAfter(r)
           /\ nextToken' = nextToken + Cardinality(r.issued)
           /\ exchanged' = ExchangedAfter(f.req, r)
           /\ inflight' = [inflight EXCEPT ![s] =
                  [f EXCEPT !.pc = "done",
                            !.resp = TokenResponse(f.client_id, r,
                                        TokenCredentials(f.req, f.existing_code,
                                                         f.existing_token))]]
    /\ UNCHANGED <<now, session, nextCode, request, resp, revoked,
                   decided>>

\* The worker's response is sent.
TokenClose(s) ==
    /\ inflight[s].pc = "done"
    /\ inflight' = [inflight EXCEPT ![s] = NoFlight]
    /\ UNCHANGED <<now, session, codes, tokens, nextCode, nextToken, request,
                   resp, exchanged, revoked,
                   decided>>

\* Faulty variant: the token returned as found, the engine's verdict unused.
CheckAccessTokenUnverified(access_token) == SearchToken(access_token)

\* _check_access_token(): the token record, or none (False).
CheckAccessToken(access_token) ==
    LET token == SearchToken(access_token)
    IN  IF token = {} THEN {}
        ELSE IF verify_request(access_token) THEN token
        ELSE {}

InvalidToken == JsonError(401, "invalid_or_expired_token")

\* GET /oauth2/tokeninfo
TokenInfo ==
    /\ Serving("tokeninfo")
    /\ LET token == CheckAccessToken(request.token)
       IN  resp' =
             IF token = {} THEN InvalidToken
             ELSE LET t == CHOOSE t \in token : TRUE
                      user_data == get_data_for_model(t, "res.users")
                  IN  IF "id" \in user_data
                         /\ ~({"name", "login"} \subseteq user_data)
                      THEN [NoResp EXCEPT !.kind = "exception", !.status = 500,
                                          !.error = "KeyError",
                                          !.value = t.token, !.engine = TRUE]
                      ELSE [NoResp EXCEPT !.kind = "json", !.status = 200,
                               !.client = t.client_id, !.value = t.token,
                               !.scopes = t.scopes,
                               !.expires_in = t.expires_at - now,
                               !.fields = {"audience", "scopes", "expires_in"}
                                   \cup (IF "id" \in user_data
                                         THEN {"user_id", "name", "email"}
                                         ELSE {}),
                               !.user = IF "id" \in user_data THEN t.user_id
                                        ELSE None,
                               !.engine = TRUE]
    /\ UNCHANGED <<now, session, codes, tokens, nextCode, nextToken, request,
                   inflight, exchanged, revoked,
                   decided>>

\* userinfo(): the token value read from the Authorization header (default
\* ' ') unless its type is Basic; "" is the empty string after the default.
UserInfoToken(req) ==
    IF req.auth_type = None THEN ""
    ELSE IF req.auth_type # "Basic" THEN req.auth_string
    ELSE req.token

\* GET /oauth2/userinfo
UserInfo ==
    /\ Serving("userinfo")
    /\ LET token == CheckAccessToken(UserInfoToken(request))
       IN  resp' =
             IF request.auth_type = "NoSpace"
             THEN [NoResp EXCEPT !.kind = "exception", !.status = 500,
                                 !.error = "ValueError"]
             ELSE IF token = {} THEN InvalidToken
             ELSE LET t == CHOOSE t \in token : TRUE
                  IN  [NoResp EXCEPT !.kind = "json", !.status = 200,
                           !.value = t.token,
                           !.fields = get_data_for_model(t, "res.users"),
                           !.user = t.user_id, !.engine = TRUE]
    /\ UNCHANGED <<now, session, codes, tokens, nextCode, nextToken, request,
                   inflight, exchanged, revoked,
                   decided>>

\* Faulty variant: the resource type checked before the token.
OtherInfoModelFirst ==
    /\ Serving("otherinfo")
    /\ LET token == CheckAccessToken(request.token)
       IN  resp' =
             IF SearchModel(request.model) = {}
             THEN [JsonError(400, "invalid_model") EXCEPT
                      !.value = request.token, !.engine = TRUE]
             ELSE IF token = {} THEN InvalidToken
             ELSE LET t == CHOOSE t \in token : TRUE
                  IN  [NoResp EXCEPT !.kind = "json", !.status = 200,
                           !.value = t.token,
                           !.fields = get_data_for_model(t, request.model),
                           !.engine = TRUE]
    /\ UNCHANGED <<now, session, codes, tokens, nextCode, nextToken, request,
                   inflight, exchanged, revoked,
                   decided>>

\* GET /oauth2/otherinfo
OtherInfo ==
    /\ Serving("otherinfo")
    /\ LET token == CheckAccessToken(request.token)
       IN  resp' =
             IF token = {} THEN InvalidToken
             ELSE IF SearchModel(request.model) = {}
             THEN [JsonError(400, "invalid_model") EXCEPT
                      !.value = request.token, !.engine = TRUE]
             ELSE LET t == CHOOSE t \in token : TRUE
                  IN  [NoResp EXCEPT !.kind = "json", !.status = 200,
                           !.value = t.token,
                           !.fields = get_data_for_model(t, request.model),
                           !.engine = TRUE]
    /\ UNCHANGED <<now, session, codes, tokens, nextCode, nextToken, request,
                   inflight, exchanged, revoked,
                   decided>>

\* Faulty variant: the lookup by access value alone.
RevokeLookupAccessOnly(value) == SearchToken(value)

\* revoke_token(): the token looked up by access value, else by refresh value.
RevokeLookup(value) ==
    IF SearchToken(value) # {} THEN SearchToken(value)
    ELSE SearchRefreshToken(value)

\* POST /oauth2/revoke_token
RevokeToken ==
    /\ Serving("revoke_token")
    /\ LET db_token == RevokeLookup(request.token)
       IN  IF db_token = {}
           THEN /\ resp' = InvalidToken
                /\ UNCHANGED <<tokens, revoked>>
           ELSE /\ tokens' = revoke(request.token)
                /\ revoked' = revoked \cup {request.token}
                /\ resp' = [NoResp EXCEPT !.kind = "json", !.status = 200,
                               !.client = (CHOOSE t \in db_token : TRUE).client_id,
                               !.value = request.token, !.engine = TRUE]
    /\ UNCHANGED <<now, session, codes, nextCode, nextToken, request, inflight,
                   exchanged,
                   decided>>

\* ------------------------------------------------------------ environment
\* A request arrives.
Receive(req) ==
    /\ Idle
    /\ request' = req
    /\ UNCHANGED <<now, session, codes, tokens, nextCode, nextToken, resp,
                   inflight, exchanged, revoked,
                   decided>>

\* The response is sent and the request ends.
Deliver ==
    /\ request # NoReq
    /\ resp # NoResp
    /\ request' = NoReq
    /\ resp' = NoResp
    /\ UNCHANGED <<now, session, codes, tokens, nextCode, nextToken, inflight,
                   exchanged, revoked,
                   decided>>

\* The clock advances (between requests: a handler reads the clock when it
\* runs, so a tick while a request waits is a tick before it arrived).
Tick ==
    /\ Idle
    /\ now < MaxTime
    /\ now' = now + 1
    /\ UNCHANGED <<session, codes, tokens, nextCode, nextToken, request, resp,
                   inflight, exchanged, revoked,
                   decided>>

\* ---------------------------------------------------------------- requests
AuthorizeGetRequests ==
    {[NoReq EXCEPT !.ep = "authorize_get", !.user = u, !.client_id = c,
                   !.response_type = rt, !.redirect_uri = ru, !.scope = sc,
                   !.state = st] :
        u \in Users, c \in ClientIdParams, rt \in ResponseTypeParams,
        ru \in RedirectUriParams, sc \in ScopeRequests, st \in StateParams}

AuthorizePostRequests ==
    {[NoReq EXCEPT !.ep = "authorize_post", !.user = u] : u \in Users}

\* Authorization requests that pass validation.
ValidAuthorizeGetRequests ==
    {r \in AuthorizeGetRequests :
        /\ SearchClient(r.client_id) # {}
        /\ validate_authorization_request(
               r.client_id, r.response_type, r.redirect_uri, r.scope,
               r.state).outcome = "ok"}

DenyRequests ==
    {[NoReq EXCEPT !.ep = "deny", !.user = u, !.submit_button = b] :
        u \in Users, b \in {"oauth_deny", "oauth_allow"}}

\* The values the stores may hold, and one they never hold.
CodeValues == {CodeValue(k) : k \in 1..MaxCodes}
AccessValues == {AccessValue(k) : k \in 1..MaxTokens}
RefreshValues == {RefreshValue(k) : k \in 1..MaxTokens}
UnknownValue == "bogus"

TokenReq(c, u, g, code, rt, sc, ok) ==
    [NoReq EXCEPT !.ep = "token", !.client_id = c, !.user = u,
                  !.grant_type = g, !.code = code, !.refresh_token = rt,
                  !.scope = sc, !.secret_ok = ok]

\* Token requests: code exchanges and refreshes by an authenticated client
\* with every scope parameter, and around them the requests that fail on the
\* client, its authentication, the grant type or a missing parameter.
ExchangeRequests ==
    {TokenReq(c, None, "authorization_code", code, rt, sc, TRUE) :
        c \in ClientIds, code \in CodeValues \cup {UnknownValue},
        rt \in RefreshValues \cup {None}, sc \in TokenScopeParams}
RefreshRequests ==
    {TokenReq(c, None, "refresh_token", None, rt, sc, TRUE) :
        c \in ClientIds, rt \in RefreshValues \cup {UnknownValue},
        sc \in TokenScopeParams}
FailingTokenRequests ==
    {TokenReq(c, None, "authorization_code", code, None, NoScope, FALSE) :
        c \in ClientIds, code \in CodeValues}
    \cup {TokenReq("ghost", None, "authorization_code", code, None, NoScope, TRUE) :
        code \in CodeValues}
    \cup {TokenReq(None, u, "authorization_code", code, None, NoScope, TRUE) :
        u \in Users \cup {None}, code \in CodeValues}
    \cup {TokenReq(c, None, g, None, None, NoScope, TRUE) :
        c \in ClientIds, g \in {"authorization_code", "refresh_token", "password"}}
TokenRequests == ExchangeRequests \cup RefreshRequests \cup FailingTokenRequests

\* Code exchanges and refreshes as a well-behaved client sends them.
PlainTokenRequests ==
    {r \in ExchangeRequests \cup RefreshRequests :
        /\ r.scope = NoScope
        /\ r.code # UnknownValue
        /\ r.refresh_token # UnknownValue
        /\ r.grant_type = "authorization_code" => r.refresh_token = None}

TokenValues == AccessValues \cup RefreshValues \cup {UnknownValue}

ResourceRequests ==
    {[NoReq EXCEPT !.ep = "tokeninfo", !.token = v] : v \in TokenValues}
    \cup {[NoReq EXCEPT !.ep = "otherinfo", !.token = v, !.model = m] :
            v \in TokenValues,
            m \in {"res.users", "res.partner", "no.such.model"}}
    \cup {[NoReq EXCEPT !.ep = "userinfo", !.token = q, !.auth_type = a,
                        !.auth_string = h] :
            q \in AccessValues \cup {None},
            a \in {"Bearer", "Basic"}, h \in AccessValues \cup {UnknownValue}}
    \cup {[NoReq EXCEPT !.ep = "userinfo", !.token = q, !.auth_type = a] :
            q \in AccessValues \cup {None}, a \in {None, "NoSpace"}}
    \cup {[NoReq EXCEPT !.ep = "revoke_token", !.token = v] : v \in TokenValues}

Init ==
    /\ now = 0
    /\ session = [u \in Users |-> NoPending]
    /\ codes = {}
    /\ tokens = {}
    /\ nextCode = 1
    /\ nextToken = 1
    /\ request = NoReq
    /\ resp = NoResp
    /\ inflight = [s \in Slots |-> NoFlight]
    /\ exchanged = {}
    /\ revoked = {}
    /\ decided = [u \in Users |-> FALSE]

\* The authorization endpoint: every authorization request, consent and
\* denial of every user.
NextAuthorize ==
    \/ \E req \in AuthorizeGetRequests \cup AuthorizePostRequests
                    \cup DenyRequests : Receive(req)
    \/ AuthorizeGet
    \/ AuthorizePost
    \/ DenyPost
    \/ Deliver

SpecAuthorize == Init /\ [][NextAuthorize]_vars

\* The token endpoint: codes obtained by valid authorization requests for
\* app1, and every token request.
NextToken ==
    \/ \E req \in {r \in ValidAuthorizeGetRequests : r.client_id = "app1"}
                    \cup AuthorizePostRequests \cup TokenRequests : Receive(req)
    \/ AuthorizeGet
    \/ AuthorizePost
    \/ Token
    \/ Deliver

SpecToken == Init /\ [][NextToken]_vars

\* The resource endpoints and revocation: tokens obtained by user u1 through
\* valid authorization requests and plain exchanges, the clock, and every
\* introspection, user-data and revocation request.
NextResource ==
    \/ \E req \in {r \in ValidAuthorizeGetRequests \cup AuthorizePostRequests :
                      r.user = "u1"}
                    \cup PlainTokenRequests \cup ResourceRequests : Receive(req)
    \/ AuthorizeGet
    \/ AuthorizePost
    \/ Token
    \/ TokenInfo
    \/ UserInfo
    \/ OtherInfo
    \/ RevokeToken
    \/ Deliver
    \/ Tick

SpecResource == Init /\ [][NextResource]_vars

\* Code exchanges of clients that race: by each client and by an unknown
\* one, authenticated or not.
ConcurrentTokenRequests ==
    {TokenReq(c, None, "authorization_code", code, None, NoScope, ok) :
        c \in ClientIdParams, code \in CodeValues, ok \in BOOLEAN}

\* The token endpoint under concurrent requests: codes obtained by user u1
\* for app1 through valid authorization requests, exchanged by two workers at
\* once.
NextConcurrent ==
    \/ \E req \in {r \in ValidAuthorizeGetRequests \cup AuthorizePostRequests :
                      r.user = "u1" /\ r.client_id \in {"app1", None}} :
          Receive(req)
    \/ AuthorizeGet
    \/ AuthorizePost
    \/ Deliver
    \/ \E s \in Slots, req \in ConcurrentTokenRequests : TokenLookup(s, req)
    \/ \E s \in Slots : TokenRespond(s)
    \/ \E s \in Slots : TokenClose(s)

SpecConcurrent == Init /\ [][NextConcurrent]_vars

\* -------------------------------------------------------------- properties
AuthorizeEndpoints == {"authorize_get", "authorize_post"}

\* An authorization request whose client and redirect_uri are verified.
VerifiedRedirect(req) ==
    /\ SearchClient(req.client_id) # {}
    /\ req.redirect_uri \in Client(req.client_id).redirect_uris

\* C2: every redirect the authorization endpoint emits (GET or POST) goes to
\* a redirect_uri registered for the client it is emitted for, which for GET
\* is the client of the request; and a GET whose redirect_uri is not
\* registered for its client ends in the error page.
C2_RedirectOnlyToRegisteredUri ==
    /\ \A ep \in AuthorizeEndpoints :
          Handled(ep) /\ resp.kind = "redirect" =>
              /\ SearchClient(resp.client) # {}
              /\ resp.uri \in Client(resp.client).redirect_uris
    /\ Handled("authorize_get") /\ resp.kind = "redirect" =>
          resp.client = request.client_id
    /\ Handled("authorize_get") /\ SearchClient(request.client_id) # {}
          /\ ~VerifiedRedirect(request) => resp.kind = "error_page"

C2_Witness ==
    /\ Handled("authorize_post")
    /\ resp.kind = "redirect"
    /\ resp.uri = "https://app1/cb"

\* The client an authorization request is handled for: of the request (GET)
\* or of the session's pending authorization (POST).
AuthorizeClientId ==
    IF request.ep = "authorize_get" THEN request.client_id
    ELSE session[request.user].client_id

\* C3: an authorization request (GET with an unregistered client_id, POST
\* with no pending authorization or one of an unregistered client) is
\* answered with the error page: no redirect, no call of the engine, no
\* authorization code issued.
C3_UnknownClientIsFatal ==
    [][(/\ request.ep \in AuthorizeEndpoints
        /\ resp = NoResp /\ resp' # NoResp
        /\ SearchClient(AuthorizeClientId) = {})
       => (/\ resp'.kind = "error_page"
           /\ resp'.uri = None
           /\ ~resp'.engine
           /\ codes' = codes
           /\ nextCode' = nextCode)]_vars

C3_Witness ==
    /\ Handled("authorize_post")
    /\ session[request.user] = NoPending
    /\ resp.kind = "error_page"

\* C8: the scopes stored in a pending authorization, and those of every code,
\* are within the client's allowed scopes; a GET that stores them stores
\* exactly the requested scopes that are allowed (none added, the others
\* dropped); the request fails on its scopes only when none is allowed; and
\* the code issued on approval carries the stored scopes.
C8_StoredScopesAreFiltered ==
    /\ \A u \in Users : session[u] # NoPending =>
          session[u].scopes \subseteq Client(session[u].client_id).scopes
    /\ \A c \in codes : c.scopes \subseteq Client(c.client_id).scopes
    /\ Handled("authorize_get") /\ resp.kind \in {"consent_page", "redirect"} =>
          /\ session[request.user].scopes
                = request.scope \cap Client(request.client_id).scopes
          /\ session[request.user].scopes # {}
    /\ Handled("authorize_get") /\ VerifiedRedirect(request)
          /\ request.response_type \in Client(request.client_id).response_types
          => (resp.kind = "error_page"
                <=> request.scope \cap Client(request.client_id).scopes = {})
    /\ \A ep \in AuthorizeEndpoints :
          Handled(ep) /\ resp.kind = "redirect" =>
              \E c \in codes : /\ c.code = resp.value
                               /\ c.scopes = session[request.user].scopes

C8_Witness ==
    /\ Handled("authorize_get")
    /\ resp.kind = "consent_page"
    /\ request.scope = {"partners", "admin"}
    /\ session[request.user].scopes = {"partners"}

\* C9 (as claimed): a GET for a registered client and a verified redirect_uri
\* that fails on its response_type or on an empty scope intersection is
\* answered with a redirect to that redirect_uri carrying the error and the
\* state.
C9_ProtocolErrorRedirects ==
    Handled("authorize_get") /\ VerifiedRedirect(request)
        /\ (\/ request.response_type
                  \notin Client(request.client_id).response_types
            \/ request.scope \cap Client(request.client_id).scopes = {})
    => /\ resp.kind = "redirect"
       /\ resp.uri = request.redirect_uri
       /\ resp.error \in {"unsupported_response_type", "unauthorized_client",
                          "invalid_scope"}
       /\ resp.state = request.state

\* C1: a code yields at most one 200 response of the token endpoint, over
\* every interleaving of the workers' lookups and responses; and every code
\* exchange by a registered, authenticated client is answered either with
\* that one 200 or with 400 invalid_grant.
C1_AtMostOneSuccessPerCode ==
    /\ \A code \in CodeValues :
          Cardinality({e \in exchanged : e[1] = code}) <= 1
    /\ \A s \in Slots, t \in Slots :
          (/\ s # t
           /\ inflight[s].pc = "done" /\ inflight[t].pc = "done"
           /\ inflight[s].req.code = inflight[t].req.code
           /\ inflight[s].resp.status = 200)
          => inflight[t].resp.status # 200
    /\ \A s \in Slots :
          (/\ inflight[s].pc = "done"
           /\ inflight[s].req.grant_type = "authorization_code"
           /\ SearchClient(TokenClientId(inflight[s].req)) # {}
           /\ inflight[s].req.secret_ok)
          => \/ /\ inflight[s].resp.status = 200
                /\ <<inflight[s].req.code, inflight[s].resp.value>> \in exchanged
             \/ /\ inflight[s].resp.status = 400
                /\ inflight[s].resp.error = "invalid_grant"

\* Both workers found the code unconsumed; one got the token, the other
\* invalid_grant.
C1_Witness ==
    /\ inflight["w1"].pc = "done" /\ inflight["w2"].pc = "done"
    /\ inflight["w1"].req = inflight["w2"].req
    /\ \A s \in Slots : \E c \in inflight[s].existing_code : ~c.consumed
    /\ inflight["w1"].resp.status = 200
    /\ inflight["w2"].resp.error = "invalid_grant"

TokenErrorCodes ==
    {"invalid_request", "invalid_client", "invalid_grant",
     "unauthorized_client", "unsupported_grant_type", "invalid_scope"}

\* C10 (as claimed): every failure response of the token endpoint is JSON with
\* status 400 or 401 and one of the error codes of the token endpoint.
C10_TokenFailuresAreStructured ==
    Handled("token") /\ resp.status # 200
    => /\ resp.kind = "json"
       /\ resp.status \in {400, 401}
       /\ resp.error \in TokenErrorCodes

\* The value a resource request has _check_access_token() check, when it
\* gets that far.
CheckedValue ==
    IF request.ep = "userinfo" THEN UserInfoToken(request) ELSE request.token

ChecksToken ==
    /\ \/ Handled("tokeninfo")
       \/ Handled("otherinfo")
       \/ Handled("userinfo") /\ request.auth_type # "NoSpace"

\* C4: once a revocation has responded success for a value, the access-token
\* check fails for that value in every later state, and tokeninfo, userinfo
\* and otherinfo answer it with 401 invalid_or_expired_token.
C4_RevokedTokenStaysInvalid ==
    /\ \A v \in revoked : CheckAccessToken(v) = {}
    /\ ChecksToken /\ CheckedValue \in revoked => resp = InvalidToken

C4_Witness ==
    /\ Handled("tokeninfo")
    /\ request.token \in revoked
    /\ request.token \in AccessValues
    /\ resp = InvalidToken

\* C5: a revocation request whose value is neither an access-token value nor
\* a refresh-token value is answered 401 invalid_or_expired_token without a
\* call of the engine and leaves the tokens unchanged; one whose value is
\* either gets the revocation response of the server of that token's client,
\* the token found by access value if there is one.
C5_RevokeLookupOrder ==
    [][(Serving("revoke_token") /\ resp' # NoResp)
       => LET by_access == SearchToken(request.token)
              by_refresh == SearchRefreshToken(request.token)
          IN  IF by_access = {} /\ by_refresh = {}
              THEN /\ resp' = InvalidToken
                   /\ ~resp'.engine
                   /\ tokens' = tokens
              ELSE /\ resp'.engine
                   /\ \E t \in (IF by_access # {} THEN by_access
                                ELSE by_refresh) :
                         resp'.client = t.client_id]_vars

C5_Witness ==
    /\ Handled("revoke_token")
    /\ request.token \in RefreshValues
    /\ resp.status = 200
    /\ resp.engine

C11_PendingConsumedByDecision ==
    [][(/\ Serving("authorize_post")
        /\ resp' # NoResp
        /\ decided[request.user])
       => (/\ codes' = codes
           /\ resp'.kind # "redirect")]_vars

\* The token value a userinfo request carries in exactly one place: in the
\* access_token query parameter (no Authorization header) or in a Bearer
\* Authorization header (no query parameter); None for the other requests.
CarriedOnce ==
    IF request.auth_type = None THEN request.token
    ELSE IF request.auth_type = "Bearer" /\ request.token = None
    THEN request.auth_string
    ELSE None

\* C12 (as claimed): a userinfo request that carries a valid token only in
\* the access_token query parameter, or only in the Bearer header, is
\* answered 200 with the user fields the token's scopes authorize.
C12_UserInfoHeaderOrQuery ==
    Handled("userinfo") /\ CheckAccessToken(CarriedOnce) # {}
    => /\ resp.status = 200
       /\ \E t \in CheckAccessToken(CarriedOnce) :
             resp.fields = get_data_for_model(t, "res.users")

\* C13: a GET /oauth2/authorize that passes validation stores the pending
\* authorization; for a client with skip_authorization it answers with the
\* redirect of the approval (to the stored redirect_uri, with the stored state
\* and a new code carrying the stored scopes for the user) and never with the
\* consent page; for a client without the flag it issues no code and renders
\* the consent page.
C13_SkipAuthorizationApproves ==
    [][(/\ Serving("authorize_get")
        /\ resp' # NoResp
        /\ request \in ValidAuthorizeGetRequests)
       => LET pending == session'[request.user]
          IN  /\ pending.client_id = request.client_id
              /\ pending.redirect_uri = request.redirect_uri
              /\ pending.state = request.state
              /\ IF Client(request.client_id).skip_authorization
                 THEN /\ resp'.kind = "redirect"
                      /\ resp'.client = pending.client_id
                      /\ resp'.uri = pending.redirect_uri
                      /\ resp'.state = pending.state
                      /\ \E c \in codes' \ codes :
                            /\ c.code = resp'.value
                            /\ c.scopes = pending.scopes
                            /\ c.user_id = request.user
                            /\ c.client_id = pending.client_id
                      /\ Cardinality(codes' \ codes) = 1
                 ELSE /\ resp'.kind = "consent_page"
                      /\ codes' = codes]_vars

C13_Witness ==
    /\ Handled("authorize_get")
    /\ request.client_id = "app2"
    /\ resp.kind = "redirect"
    /\ resp.value \in CodeValues
    /\ session[request.user].client_id = "app2"

\* C14 (as claimed): no handler ends in an uncaught exception; every response
\* is a rendered page, a redirect or a JSON body.
C14_NoUnhandledFailure ==
    resp # NoResp => resp.kind \in {"error_page", "consent_page", "redirect", "json"}

\* What POST /oauth2/deny does for a session with a pending authorization:
\* JSON with grant = 400 and the pending redirect_uri; code and token stores
\* unchanged.
DenialAnswered ==
    /\ resp'.kind = "json"
    /\ resp'.fields = {"grant", "redirect_uri"}
    /\ resp'.grant = 400
    /\ resp'.uri = session[request.user].redirect_uri
    /\ codes' = codes /\ nextCode' = nextCode
    /\ tokens' = tokens /\ nextToken' = nextToken

\* C15 (amended): POST /oauth2/deny with submit_button = "oauth_deny" (its
\* default) for a session with a pending authorization returns JSON with
\* grant = 400 and the redirect_uri of that pending authorization, and leaves
\* the code and token stores unchanged.
C15_DenyReturnsGrant400 ==
    [][(/\ Serving("deny")
        /\ resp' # NoResp
        /\ session[request.user] # NoPending
        /\ request.submit_button = "oauth_deny")
       => DenialAnswered]_vars

C15_Witness ==
    /\ Handled("deny")
    /\ request.submit_button = "oauth_deny"
    /\ session[request.user].redirect_uri = "https://app1/cb"
    /\ resp.grant = 400
    /\ resp.uri = "https://app1/cb"

\* C15 (as claimed): every POST /oauth2/deny for a session with a pending
\* authorization, whatever its submit_button, returns that JSON.
C15_EveryDenyReturnsGrant400 ==
    [][(/\ Serving("deny")
        /\ resp' # NoResp
        /\ session[request.user] # NoPending)
       => DenialAnswered]_vars

\* C16 (as claimed): in every successful authorization_code exchange the
\* user_id the controller hands to the engine in the credentials (and the
\* response therefore reports) is the user of the exchanged code.
C16_TokenBoundToCodeUser ==
    Handled("token") /\ resp.status = 200
        /\ request.grant_type = "authorization_code"
    => \E c \in codes : /\ c.code = request.code
                        /\ c.client_id = resp.client
                        /\ resp.user = c.user_id

\* C17 (as claimed): tokeninfo for a valid token responds 200 with audience,
\* scopes and expires_in; user_id, name and email are absent when the token's
\* scopes authorize no field of the user, and no field the scopes do not
\* authorize is exposed.
C17_TokenInfoAlways200 ==
    Handled("tokeninfo") /\ CheckAccessToken(request.token) # {}
    => \E t \in CheckAccessToken(request.token) :
          LET user_data == get_data_for_model(t, "res.users")
          IN  /\ resp.status = 200
              /\ {"audience", "scopes", "expires_in"} \subseteq resp.fields
              /\ user_data = {} =>
                    resp.fields \cap {"user_id", "name", "email"} = {}
              /\ "name" \in resp.fields => "name" \in user_data
              /\ "email" \in resp.fields => "login" \in user_data

\* C18: otherinfo checks the token before the resource type: a token that
\* fails the access-token check gets 401 invalid_or_expired_token whatever
\* the model parameter; a valid token with an unknown resource type gets 400;
\* a valid token with a known resource type gets 200 with the fields of that
\* type its scopes authorize, and only then is data returned.
C18_OtherInfoChecksTokenFirst ==
    Handled("otherinfo")
    => LET token == CheckAccessToken(request.token)
       IN  /\ token = {} => resp = InvalidToken
           /\ token # {} /\ SearchModel(request.model) = {}
                 => /\ resp.kind = "json"
                    /\ resp.status = 400
                    /\ resp.error = "invalid_model"
                    /\ resp.fields = {}
           /\ token # {} /\ SearchModel(request.model) # {}
                 => /\ resp.status = 200
                    /\ \E t \in token :
                          resp.fields = get_data_for_model(t, request.model)
           /\ resp.status = 200 => token # {} /\ SearchModel(request.model) # {}

\* An expired token presented with an unknown resource type: 401, not 400.
C18_Witness ==
    /\ Handled("otherinfo")
    /\ request.model = "no.such.model"
    /\ \E t \in tokens : t.token = request.token /\ t.expires_at <= now
    /\ resp = InvalidToken

\* C19: a GET /oauth2/authorize that fails (unknown client, fatal client
\* error or protocol error) leaves the session unchanged and issues no code,
\* and a POST /oauth2/authorize that issues a code issues it for the pending
\* authorization the session holds, with its client, redirect_uri and scopes.
C19_FailedGetKeepsPending ==
    [][/\ (/\ Serving("authorize_get")
           /\ resp' # NoResp
           /\ request \notin ValidAuthorizeGetRequests)
          => /\ resp'.kind = "error_page"
             /\ session' = session
             /\ codes' = codes
       /\ (/\ Serving("authorize_post")
           /\ resp' # NoResp
           /\ resp'.kind = "redirect")
          => /\ session' = session
             /\ \E c \in codes' \ codes :
                   /\ c.code = resp'.value
                   /\ c.client_id = session[request.user].client_id
                   /\ c.redirect_uri = session[request.user].redirect_uri
                   /\ c.scopes = session[request.user].scopes
                   /\ c.user_id = request.user]_vars

\* A failed GET (for app2, or for no client) answered while the session
\* holds the pending authorization of an earlier successful GET for app1.
C19_Witness ==
    /\ Handled("authorize_get")
    /\ resp.kind = "error_page"
    /\ request.client_id # "app1"
    /\ session[request.user].client_id = "app1"

\* C20: whenever GET /oauth2/authorize has rendered the consent page, the
\* scopes it lists are the scopes stored in the session's pending
\* authorization; and the code a POST /oauth2/authorize issues carries the
\* scopes stored in the session.
C20_ConsentShowsStoredScopes ==
    /\ Handled("authorize_get") /\ resp.kind = "consent_page"
          => /\ resp.scopes = session[request.user].scopes
             /\ session[request.user].client_id = request.client_id
    /\ Handled("authorize_post") /\ resp.kind = "redirect"
          => /\ resp.scopes = session[request.user].scopes
             /\ \E c \in codes : /\ c.code = resp.value
                                 /\ c.user_id = request.user
                                 /\ c.scopes = session[request.user].scopes

\* The consent page of a request for {partners, admin}: it lists partners
\* alone, which is what the session holds.
C20_Witness ==
    /\ Handled("authorize_get")
    /\ resp.kind = "consent_page"
    /\ request.scope = {"partners", "admin"}
    /\ resp.scopes = {"partners"}
    /\ session[request.user].scopes = resp.scopes

====
